---- MODULE Spec2Model ----
(***************************************************************************)
(* The teachers resource controller (src/controllers/teacher.controller.js) *)
(* as a state machine.  Five handlers (createTeacher, getAllTeachers,      *)
(* getTeacherById, updateTeacher, deleteTeacher) run concurrently; each    *)
(* handler is cut at its awaits, so one action is one Persistence Gateway  *)
(* call together with the handler code that runs up to the next await.     *)
(* The gateway (db.Teacher, an ORM model that is not part of the           *)
(* controller file) is modelled from its contract: every call either       *)
(* returns or throws.                                                      *)
(***************************************************************************)
EXTENDS Integers, Sequences, FiniteSets, TLC

(* ------------------------------ bounds -------------------------------- *)
\* requests received in one run
MaxReq == 3
\* requests received in one sequential run
MaxSeqReq == 4
\* handlers that can be suspended at an await at the same time
MaxInFlight == 2
\* identities a request can name (path parameter, or an id field in a body)
MaxId == 2
\* teachers in the store of the listing specification
MaxListId == 3

(* --------------------------- program constants ------------------------ *)
\* parseInt(req.query.limit) || 10
DefaultLimit == 10
\* parseInt(req.query.page) || 1
DefaultPage == 1

(* ------------------------------ values -------------------------------- *)
\* a key that is not present in a body, a query or an entity (undefined)
Undefined == "undefined"
Names == {"Alice", "Bob"}
Depts == {"Math", "Physics"}
PathIds == 1..MaxId

\* a teacher as the gateway returns it; id 0 stands for null
NoEntity == [id |-> 0, name |-> Undefined, department |-> Undefined]
Entity(i, row) == [id |-> i, name |-> row.name, department |-> row.department]

\* req.body: id 0 stands for a body without an id key
NoBody == [id |-> 0, name |-> Undefined, department |-> Undefined]
CreateBodies ==
    {[id |-> i, name |-> "Alice", department |-> "Math"] : i \in 0..MaxId}
        \cup {[id |-> 0, name |-> Undefined, department |-> "Math"]}
UpdateBodies ==
    {NoBody,
     [NoBody EXCEPT !.name = "Bob"],
     [NoBody EXCEPT !.department = "Physics"],
     [id |-> MaxId, name |-> "Bob", department |-> "Physics"]}

Max(a, b) == IF a >= b THEN a ELSE b
Min(a, b) == IF a <= b THEN a ELSE b

(* ------------------------- parseInt and friends ------------------------ *)
\* A query value: whether the key is present, and the string as a sequence
\* of one-character strings.
QAbsent == [present |-> FALSE, chars |-> <<>>]
QStr(s) == [present |-> TRUE, chars |-> s]
Digits == {"0", "1", "2", "3", "4", "5", "6", "7", "8", "9"}
DigitVal(c) ==
    CASE c = "0" -> 0 [] c = "1" -> 1 [] c = "2" -> 2 [] c = "3" -> 3
      [] c = "4" -> 4 [] c = "5" -> 5 [] c = "6" -> 6 [] c = "7" -> 7
      [] c = "8" -> 8 [] c = "9" -> 9

NaN == [nan |-> TRUE, val |-> 0]
Num(n) == [nan |-> FALSE, val |-> n]

RECURSIVE SkipSpaces(_)
SkipSpaces(s) == IF s # <<>> /\ Head(s) = " " THEN SkipSpaces(Tail(s)) ELSE s

\* the value of the longest prefix of decimal digits of s, continuing acc
RECURSIVE DigitsPrefix(_, _)
DigitsPrefix(s, acc) ==
    IF s # <<>> /\ Head(s) \in Digits
    THEN DigitsPrefix(Tail(s), 10 * acc + DigitVal(Head(s)))
    ELSE acc

\* parseInt(v) of ECMAScript with no radix, on decimal input: undefined
\* gives NaN; leading white space is skipped, one sign is read, then the
\* longest run of digits; NaN when no digit follows.
ParseInt(v) ==
    IF ~v.present THEN NaN
    ELSE LET t == SkipSpaces(v.chars)
             neg == t # <<>> /\ Head(t) = "-"
             u == IF t # <<>> /\ Head(t) \in {"-", "+"} THEN Tail(t) ELSE t
         IN  IF u = <<>> \/ Head(u) \notin Digits THEN NaN
             ELSE Num(IF neg THEN 0 - DigitsPrefix(u, 0) ELSE DigitsPrefix(u, 0))

\* a fallback that is taken for NaN alone
OrDefault_NaNOnly(p, d) == IF p.nan THEN d ELSE p.val
\* p || d : NaN and 0 are falsy
OrDefault(p, d) == IF p.nan \/ p.val = 0 THEN d ELSE p.val

(* ------------------- getAllTeachers: the pure parts -------------------- *)
\* const limit = parseInt(req.query.limit) || 10
EffLimit(q) == OrDefault(ParseInt(q.limit), DefaultLimit)
\* const page = parseInt(req.query.page) || 1
EffPage(q) == OrDefault(ParseInt(q.page), DefaultPage)
\* a comparison that ignores case
SortDir_IgnoreCase(q) == IF q.sort \in {"desc", "DESC"} THEN "DESC" ELSE "ASC"
\* const sort = req.query.sort === 'desc' ? 'DESC' : 'ASC'
SortDir(q) == IF q.sort = "desc" THEN "DESC" ELSE "ASC"
\* an offset that counts pages from 0
Offset_PageTimesLimit(page, limit) == page * limit
\* offset: (page - 1) * limit
Offset(page, limit) == (page - 1) * limit
\* Math.floor in place of Math.ceil
TotalPages_Floor(total, limit) ==
    IF limit > 0 THEN total \div limit ELSE 0 - ((total + (0 - limit) - 1) \div (0 - limit))
\* Math.ceil(total / limit); limit is never 0 here, total is never negative
TotalPages(total, limit) ==
    IF limit > 0 THEN (total + limit - 1) \div limit ELSE 0 - (total \div (0 - limit))

\* req.query.populate, already cut at its commas: toLowerCase(), then
\* split(',').map(...).filter(Boolean) keeps one include per "course" token
Lower(t) == IF t = "Course" THEN "course" ELSE t
RECURSIVE IncludeOf(_)
IncludeOf(tokens) ==
    IF tokens = <<>> THEN <<>>
    ELSE IF Lower(Head(tokens)) = "course"
         THEN <<"Course">> \o IncludeOf(Tail(tokens))
         ELSE IncludeOf(Tail(tokens))
Include(q) == IF q.populate = <<>> THEN <<>> ELSE IncludeOf(q.populate)

(* ------------------------ the Persistence Gateway ---------------------- *)
\* The store is a function from the identities of the teachers it holds to
\* their rows.  Each gateway operation gives the set of outcomes it can
\* have; an outcome with ok = FALSE is a thrown error with message err.
Row(name, department) == [name |-> name, department |-> department]
Put(st, i, row) == [j \in DOMAIN st \cup {i} |-> IF j = i THEN row ELSE st[j]]
Drop(st, i) == [j \in DOMAIN st \ {i} |-> st[j]]

ConnErr == "connection refused"
NotNullErr == "notNull Violation"
UniqueErr == "Validation error"
QueryErr == "malformed query"

\* the identities of S in ascending order
RECURSIVE Ascending(_)
Ascending(S) ==
    IF S = {} THEN <<>>
    ELSE LET m == CHOOSE x \in S : \A y \in S : x <= y
         IN  <<m>> \o Ascending(S \ {m})
Reverse(s) == [i \in 1..Len(s) |-> s[Len(s) + 1 - i]]
Ordered(st, dir) ==
    IF dir = "DESC" THEN Reverse(Ascending(DOMAIN st)) ELSE Ascending(DOMAIN st)

GwThrow(st, nid, msg) ==
    [ok |-> FALSE, err |-> msg, entity |-> NoEntity, store |-> st, nextId |-> nid]
GwInsert(st, nid, i, body, nid2) ==
    IF i \in DOMAIN st THEN GwThrow(st, nid, UniqueErr)
    ELSE [ok |-> TRUE, err |-> "", entity |-> Entity(i, body),
          store |-> Put(st, i, Row(body.name, body.department)), nextId |-> nid2]

\* create(fields): the key is generated from the sequence nid; a body that
\* carries an id is passed through, and the gateway either ignores the
\* field or inserts the row under it (leaving the sequence or moving it
\* past the id).  Required fields are enforced here.
GwCreate(st, nid, body) ==
    IF body.name = Undefined \/ body.department = Undefined
    THEN {GwThrow(st, nid, NotNullErr)}
    ELSE {GwThrow(st, nid, ConnErr), GwInsert(st, nid, nid, body, nid + 1)}
           \cup (IF body.id = 0 THEN {}
                 ELSE {GwInsert(st, nid, body.id, body, n2) :
                            n2 \in {nid, Max(nid, body.id + 1)}})

\* count()
GwCount(st) ==
    {[ok |-> FALSE, err |-> ConnErr, n |-> 0],
     [ok |-> TRUE, err |-> "", n |-> Cardinality(DOMAIN st)]}

\* findAll({limit, offset, order}): a negative limit or offset is rejected
\* by some engines and read as "no limit" / "offset 0" by others.
Page(ord, limit, offset) ==
    LET from == Max(offset, 0) + 1
        to == IF limit < 0 THEN Len(ord) ELSE Min(Len(ord), Max(offset, 0) + limit)
    IN  IF from > to THEN <<>> ELSE [i \in 1..(to - from + 1) |-> ord[from + i - 1]]
GwFindAll(st, limit, offset, dir) ==
    {[ok |-> FALSE, err |-> IF limit < 0 \/ offset < 0 THEN QueryErr ELSE ConnErr,
      rows |-> <<>>],
     [ok |-> TRUE, err |-> "",
      rows |-> LET ids == Page(Ordered(st, dir), limit, offset)
               IN  [i \in 1..Len(ids) |-> Entity(ids[i], st[ids[i]])]]}

\* findByPk(id)
GwFindByPk(st, i) ==
    {[ok |-> FALSE, err |-> ConnErr, entity |-> NoEntity],
     [ok |-> TRUE, err |-> "",
      entity |-> IF i \in DOMAIN st THEN Entity(i, st[i]) ELSE NoEntity]}

\* instance.update(fields): the fields of the body are set on the instance
\* (the primary key is never reassigned) and written to its row, if the
\* row is still there.
Merge(row, body) ==
    [row EXCEPT !.name = IF body.name = Undefined THEN @ ELSE body.name,
                !.department = IF body.department = Undefined THEN @ ELSE body.department]
GwUpdate(st, inst, body) ==
    {[ok |-> FALSE, err |-> ConnErr, entity |-> inst, store |-> st],
     [ok |-> TRUE, err |-> "", entity |-> Merge(inst, body),
      store |-> IF inst.id \in DOMAIN st
                THEN [st EXCEPT ![inst.id] = Merge(@, body)] ELSE st]}

\* instance.destroy(): deletes the row with the instance's key, if any
GwDestroy(st, inst) ==
    {[ok |-> FALSE, err |-> ConnErr, store |-> st],
     [ok |-> TRUE, err |-> "", store |-> Drop(st, inst.id)]}

(* ------------------------------- state --------------------------------- *)
VARIABLES
    store,    \* the teachers table: identity -> row
    nextId,   \* the gateway's key sequence
    reqs,     \* the handlers suspended at an await, one per slot
    last,     \* the handler that ended in the latest step, if one did
    served,   \* the number of requests received
    used,     \* history: every identity a created teacher was ever given
    deleted   \* history: the identities whose delete was answered 'Deleted'
vars == <<store, nextId, reqs, last, served, used, deleted>>

Slots == 1..MaxInFlight

NoQuery == [limit |-> QAbsent, page |-> QAbsent, sort |-> Undefined, populate |-> <<>>]
NoMeta == [total |-> 0, page |-> 0, totalPages |-> 0]
NoSent == [limit |-> 0, offset |-> 0, dir |-> ""]
NoResp ==
    [status |-> 0, type |-> "none", text |-> "", entity |-> NoEntity,
     meta |-> NoMeta, data |-> <<>>, courses |-> FALSE]

\* A handler invocation.  pc: "counted" and "found" are the awaits inside
\* getAllTeachers and updateTeacher/deleteTeacher, "done" is a handler that
\* returned, "rejected" one whose promise rejected.  total and teacher are
\* the handler's locals.  The rest is the trace of the invocation: the
\* response sent and how many were sent; the gateway calls issued; the
\* message of the error a call threw; what the lookup returned; whether
\* the row was still stored when update/destroy ran; whether the created
\* identity was new; the options sent to findAll and the number of
\* teachers stored when it ran; whether the request came after a
\* 'Deleted' answer for its id.
Blank(kind, i, body, q) ==
    [kind |-> kind, id |-> i, body |-> body, query |-> q, pc |-> "start",
     total |-> 0, teacher |-> NoEntity, resp |-> NoResp, nresp |-> 0,
     calls |-> <<>>, thrown |-> "", lookup |-> "", row |-> "", fresh |-> FALSE,
     sent |-> NoSent, atFind |-> 0, afterDelete |-> FALSE]
NewReq(kind, i, body, q) == [Blank(kind, i, body, q) EXCEPT !.afterDelete = i \in deleted]
Idle == [Blank("none", 0, NoBody, NoQuery) EXCEPT !.pc = "idle"]

Called(r, name, o) ==
    [r EXCEPT !.calls = Append(@, name), !.thrown = IF o.ok THEN @ ELSE o.err]
\* res.status(..).json(..) followed by the handler's return
Finish(r, resp) == [r EXCEPT !.resp = resp, !.nresp = @ + 1, !.pc = "done"]

\* res.status(201).json(teacher)
Created(e) == [NoResp EXCEPT !.status = 201, !.type = "entity", !.entity = e]
\* res.json(teacher)
Ok(e, courses) ==
    [NoResp EXCEPT !.status = 200, !.type = "entity", !.entity = e, !.courses = courses]
\* res.status(404).json({ message: 'Not found' })
NotFound == [NoResp EXCEPT !.status = 404, !.type = "message", !.text = "Not found"]
\* res.json({ message: 'Deleted' })
Deleted == [NoResp EXCEPT !.status = 200, !.type = "message", !.text = "Deleted"]
\* res.status(500).json({ error: err.message })
ServerError(msg) == [NoResp EXCEPT !.status = 500, !.type = "error", !.text = msg]
\* res.json({ meta: { total, page, totalPages }, data: teachers })
Listing(total, page, limit, rows, courses) ==
    [NoResp EXCEPT !.status = 200, !.type = "list",
                   !.meta = [total |-> total, page |-> page,
                             totalPages |-> TotalPages(total, limit)],
                   !.data = rows, !.courses = courses]

Init ==
    /\ store = << >>
    /\ nextId = 1
    /\ reqs = [c \in Slots |-> Idle]
    /\ last = Idle
    /\ served = 0
    /\ used = {}
    /\ deleted = {}

Ended(r) == r.pc \in {"done", "rejected"}
\* slot c is the first free one: which slot an invocation takes is immaterial
Free(c) == reqs[c] = Idle /\ \A d \in Slots : d < c => reqs[d] # Idle
\* a request arrives and its handler runs to r: suspended in slot c, or ended
Receive(c, r) ==
    /\ Free(c)
    /\ IF Ended(r) THEN reqs' = reqs /\ last' = r
                   ELSE reqs' = [reqs EXCEPT ![c] = r] /\ last' = Idle
    /\ served' = served + 1
\* the handler suspended in slot c resumes and runs to its end r
Resume(c, r) ==
    /\ reqs' = [reqs EXCEPT ![c] = Idle]
    /\ last' = r

(* ------------------------------ handlers ------------------------------- *)
\* createTeacher: one gateway call, then 201 or 500
CreateTeacher(c, body) ==
    \E o \in GwCreate(store, nextId, body) :
        /\ Receive(c, Finish([Called(NewReq("create", 0, body, NoQuery), "create", o)
                                 EXCEPT !.fresh = o.ok /\ o.entity.id \notin used],
                             IF o.ok THEN Created(o.entity) ELSE ServerError(o.err)))
        /\ store' = o.store
        /\ nextId' = o.nextId
        /\ used' = IF o.ok THEN used \cup {o.entity.id} ELSE used
        /\ UNCHANGED deleted

\* getAllTeachers up to its first await: count() is awaited before the try
\* block, so an error it throws rejects the handler's promise.
GetAllTeachersCount(c, q) ==
    /\ \E o \in GwCount(store) :
        Receive(c, LET r == Called(NewReq("list", 0, NoBody, q), "count", o)
                   IN  IF o.ok THEN [r EXCEPT !.pc = "counted", !.total = o.n]
                       ELSE [r EXCEPT !.pc = "rejected"])
    /\ UNCHANGED <<store, nextId, used, deleted>>

\* getAllTeachers from findAll to the response
GetAllTeachersFind(c) ==
    /\ reqs[c].kind = "list" /\ reqs[c].pc = "counted"
    /\ LET q == reqs[c].query
           limit == EffLimit(q)
           page == EffPage(q)
           opts == [limit |-> limit, offset |-> Offset(page, limit), dir |-> SortDir(q)]
       IN  \E o \in GwFindAll(store, opts.limit, opts.offset, opts.dir) :
             Resume(c,
                 Finish([Called(reqs[c], "findAll", o) EXCEPT
                            !.sent = opts, !.atFind = Cardinality(DOMAIN store)],
                        IF o.ok
                        THEN Listing(reqs[c].total, page, limit, o.rows, Include(q) # <<>>)
                        ELSE ServerError(o.err)))
    /\ UNCHANGED <<store, nextId, served, used, deleted>>

\* a lookup without the line "if (!teacher) return res.status(404)..."
Lookup_NoNullCheck(r, o) ==
    LET c == [Called(r, "findByPk", o) EXCEPT
                !.lookup = IF ~o.ok THEN "threw"
                           ELSE IF o.entity = NoEntity THEN "null" ELSE "hit"]
    IN  IF ~o.ok THEN Finish(c, ServerError(o.err))
        ELSE [c EXCEPT !.pc = "found", !.teacher = o.entity]

\* the lookup of getTeacherById, updateTeacher and deleteTeacher:
\* findByPk, then 500 if it threw and 404 if it returned null
Lookup(r, o) ==
    LET c == [Called(r, "findByPk", o) EXCEPT
                !.lookup = IF ~o.ok THEN "threw"
                           ELSE IF o.entity = NoEntity THEN "null" ELSE "hit"]
    IN  IF ~o.ok THEN Finish(c, ServerError(o.err))
        ELSE IF o.entity = NoEntity THEN Finish(c, NotFound)
        ELSE [c EXCEPT !.pc = "found", !.teacher = o.entity]

\* getTeacherById
GetTeacherById(c, i) ==
    /\ \E o \in GwFindByPk(store, i) :
        Receive(c, LET r == Lookup(NewReq("get", i, NoBody, NoQuery), o)
                   IN  IF r.pc = "found" THEN Finish(r, Ok(r.teacher, TRUE)) ELSE r)
    /\ UNCHANGED <<store, nextId, used, deleted>>

\* updateTeacher up to its second await
UpdateTeacherFind(c, i, body) ==
    /\ \E o \in GwFindByPk(store, i) :
        Receive(c, Lookup(NewReq("update", i, body, NoQuery), o))
    /\ UNCHANGED <<store, nextId, used, deleted>>

\* an update that does not pass req.body on: teacher.update()
UpdateTeacherUpdate_NoBody(c) ==
    /\ reqs[c].kind = "update" /\ reqs[c].pc = "found"
    /\ \E o \in GwUpdate(store, reqs[c].teacher, NoBody) :
        /\ store' = o.store
        /\ Resume(c,
               Finish([Called(reqs[c], "update", o) EXCEPT
                          !.row = IF reqs[c].id \in DOMAIN store THEN "stored" ELSE "gone"],
                      IF o.ok THEN Ok(o.entity, FALSE) ELSE ServerError(o.err)))
    /\ UNCHANGED <<nextId, served, used, deleted>>

\* updateTeacher from teacher.update(req.body) to the response
UpdateTeacherUpdate(c) ==
    /\ reqs[c].kind = "update" /\ reqs[c].pc = "found"
    /\ \E o \in GwUpdate(store, reqs[c].teacher, reqs[c].body) :
        /\ store' = o.store
        /\ Resume(c,
               Finish([Called(reqs[c], "update", o) EXCEPT
                          !.row = IF reqs[c].id \in DOMAIN store THEN "stored" ELSE "gone"],
                      IF o.ok THEN Ok(o.entity, FALSE) ELSE ServerError(o.err)))
    /\ UNCHANGED <<nextId, served, used, deleted>>

\* deleteTeacher up to its second await
DeleteTeacherFind(c, i) ==
    /\ \E o \in GwFindByPk(store, i) :
        Receive(c, Lookup(NewReq("delete", i, NoBody, NoQuery), o))
    /\ UNCHANGED <<store, nextId, used, deleted>>

\* deleteTeacher from teacher.destroy() to the response
DeleteTeacherDestroy(c) ==
    /\ reqs[c].kind = "delete" /\ reqs[c].pc = "found"
    /\ \E o \in GwDestroy(store, reqs[c].teacher) :
        /\ store' = o.store
        /\ Resume(c,
               Finish([Called(reqs[c], "destroy", o) EXCEPT
                          !.row = IF reqs[c].id \in DOMAIN store THEN "stored" ELSE "gone"],
                      IF o.ok THEN Deleted ELSE ServerError(o.err)))
        /\ deleted' = IF o.ok THEN deleted \cup {reqs[c].id} ELSE deleted
    /\ UNCHANGED <<nextId, served, used>>

(* --------------------------- specifications ---------------------------- *)
\* the queries of the concurrent specification
Queries ==
    {[NoQuery EXCEPT !.limit = QStr(<<"2">>)],
     [NoQuery EXCEPT !.limit = QStr(<<"1">>), !.page = QStr(<<"2">>), !.sort = "desc"]}

\* Requests arrive at any time; every handler in flight may take its next
\* step at any time.
Next ==
    \/ \E c \in Slots, body \in CreateBodies : served < MaxReq /\ CreateTeacher(c, body)
    \/ \E c \in Slots, q \in Queries : served < MaxReq /\ GetAllTeachersCount(c, q)
    \/ \E c \in Slots : GetAllTeachersFind(c)
    \/ \E c \in Slots, i \in PathIds : served < MaxReq /\ GetTeacherById(c, i)
    \/ \E c \in Slots, i \in PathIds, body \in UpdateBodies :
            served < MaxReq /\ UpdateTeacherFind(c, i, body)
    \/ \E c \in Slots : UpdateTeacherUpdate(c)
    \/ \E c \in Slots, i \in PathIds : served < MaxReq /\ DeleteTeacherFind(c, i)
    \/ \E c \in Slots : DeleteTeacherDestroy(c)
Spec == Init /\ [][Next]_vars

\* Sequential runs: a request arrives only when no handler is in flight.
Quiet == \A c \in Slots : reqs[c] = Idle
NextSeq ==
    \/ \E c \in Slots, body \in CreateBodies :
            Quiet /\ served < MaxSeqReq /\ CreateTeacher(c, body)
    \/ \E c \in Slots, q \in Queries :
            Quiet /\ served < MaxSeqReq /\ GetAllTeachersCount(c, q)
    \/ \E c \in Slots : GetAllTeachersFind(c)
    \/ \E c \in Slots, i \in PathIds :
            Quiet /\ served < MaxSeqReq /\ GetTeacherById(c, i)
    \/ \E c \in Slots, i \in PathIds, body \in UpdateBodies :
            Quiet /\ served < MaxSeqReq /\ UpdateTeacherFind(c, i, body)
    \/ \E c \in Slots : UpdateTeacherUpdate(c)
    \/ \E c \in Slots, i \in PathIds :
            Quiet /\ served < MaxSeqReq /\ DeleteTeacherFind(c, i)
    \/ \E c \in Slots : DeleteTeacherDestroy(c)
SpecSeq == Init /\ [][NextSeq]_vars

\* Listing alone: any store of up to MaxListId teachers (created with the
\* keys 1..MaxListId, some deleted since), no writes, and one list request
\* (the handler keeps nothing between requests), with query values that
\* parse to positive, zero and negative integers, that do not parse, or
\* that are absent.
ListValues ==
    {QAbsent, QStr(<<>>), QStr(<<"a">>), QStr(<<"0">>), QStr(<<"1">>), QStr(<<"2">>),
     QStr(<<"3">>), QStr(<<" ", "2">>), QStr(<<"2", "a">>), QStr(<<"-", "1">>),
     QStr(<<"-", "2">>)}
ListQueries ==
    [limit : ListValues, page : ListValues,
     sort : {Undefined, "asc", "desc", "DESC"},
     populate : {<<>>, <<"course">>, <<"x", "Course">>}]
InitList ==
    /\ store \in {[i \in S |-> Row("Alice", "Math")] : S \in SUBSET (1..MaxListId)}
    /\ nextId = MaxListId + 1
    /\ reqs = [c \in Slots |-> Idle]
    /\ last = Idle
    /\ served = 0
    /\ used = 1..MaxListId
    /\ deleted = (1..MaxListId) \ DOMAIN store
NextList ==
    \/ \E c \in Slots, q \in ListQueries :
            served = 0 /\ GetAllTeachersCount(c, q)
    \/ \E c \in Slots : GetAllTeachersFind(c)
SpecList == InitList /\ [][NextList]_vars

(* ------------------------------- claims -------------------------------- *)
IsList200 == last.kind = "list" /\ last.resp.status = 200
ByIdKinds == {"get", "update", "delete"}
\* in a step that receives a request: the handler it started
Arrived == IF reqs' = reqs THEN last' ELSE reqs'[CHOOSE c \in Slots : reqs'[c] # reqs[c]]

\* C1: every handler that has ended, whatever its gateway calls returned or
\* threw, has sent exactly one response and has not let an error escape;
\* if a gateway call threw, the response is 500 { error: <message> }.
C1_OneResponseWhateverTheGatewayDoes ==
    Ended(last) =>
        /\ last.pc = "done"
        /\ last.nresp = 1
        /\ last.thrown # "" => last.resp = ServerError(last.thrown)

\* C2: a get-by-id, update or delete whose id is not in the store when the
\* handler looks it up (the lookup returning, not throwing) ends at once
\* with 404 { message: 'Not found' }, having issued findByPk and nothing
\* else, and leaves the store as it was.
C2_AbsentIdIs404 ==
    [][(/\ served' = served + 1
        /\ Arrived.kind \in ByIdKinds
        /\ Arrived.id \notin DOMAIN store
        /\ Arrived.thrown = "")
       => (/\ reqs' = reqs
           /\ last'.resp = NotFound
           /\ last'.nresp = 1
           /\ last'.calls = <<"findByPk">>
           /\ store' = store)]_vars
\* a delete of an id that is not in a non-empty store was answered 404
C2_Witness ==
    /\ last.kind = "delete" /\ last.lookup = "null" /\ last.resp = NotFound
    /\ store # << >> /\ last.id \notin DOMAIN store

\* C3: an update or delete whose row was removed by another request before
\* its own update/destroy call ran answers 404 { message: 'Not found' }
\* (so of two concurrent deletes of one teacher, the one whose destroy ran
\* second does not answer 'Deleted').
C3_LostRaceIs404 ==
    (last.kind \in {"update", "delete"} /\ last.row = "gone") => last.resp = NotFound

\* C4: in a sequential run, an id whose delete was answered 200 'Deleted' is
\* not in the store, and every later get-by-id, update or delete of it
\* (whose lookup returns) is answered 404.
C4_DeletedStaysNotFound ==
    /\ \A x \in deleted : x \notin DOMAIN store
    /\ (last.kind \in ByIdKinds /\ last.afterDelete /\ last.thrown = "")
            => last.resp = NotFound

\* C5: a list answered 200 with page >= 1 and limit >= 1, the store not being
\* written meanwhile: meta.total is the number of teachers, meta.page is
\* page, meta.totalPages is ceil(total / limit), and data is the teachers
\* in id order (descending for sort=desc) from position (page-1)*limit on,
\* limit of them at most, none when (page-1)*limit >= total.
C5_PageOfTheStore ==
    (IsList200 /\ EffPage(last.query) >= 1 /\ EffLimit(last.query) >= 1) =>
        LET page == EffPage(last.query)
            limit == EffLimit(last.query)
            total == Cardinality(DOMAIN store)
            asc == Ascending(DOMAIN store)
            ord == IF last.query.sort = "desc" THEN Reverse(asc) ELSE asc
            start == (page - 1) * limit
            n == Max(0, Min(limit, total - start))
            meta == last.resp.meta
            data == last.resp.data
        IN  /\ meta.total = total
            /\ meta.page = page
            /\ meta.totalPages * limit >= total
            /\ (meta.totalPages - 1) * limit < total
            /\ Len(data) = n
            /\ \A i \in 1..n : data[i] = Entity(ord[start + i], store[ord[start + i]])
            /\ (last.query.limit = QStr(<<"2">>) /\ last.query.page = QStr(<<"2">>))
                    => (last.sent.offset = 2 /\ Len(data) = Max(0, Min(2, total - 2)))
\* page 2 of three teachers, two to a page: one record, the third
C5_Witness ==
    /\ IsList200
    /\ last.query.limit = QStr(<<"2">>) /\ last.query.page = QStr(<<"2">>)
    /\ last.query.sort = Undefined
    /\ DOMAIN store = {1, 2, 3}
    /\ last.resp.meta = [total |-> 3, page |-> 2, totalPages |-> 2]
    /\ Len(last.resp.data) = 1 /\ last.resp.data[1].id = 3

\* C6 as stated: limit and page fall back to 10 and 1 only when the query
\* value is absent or parses to NaN; zero and negative values go through,
\* so page=0 gives offset -limit and limit=0 reaches the gateway as 0.
C6_DefaultsOnlyOnNaN ==
    (last.kind = "list" /\ Len(last.calls) = 2) =>
        LET pl == ParseInt(last.query.limit)
            pp == ParseInt(last.query.page)
            limit == IF pl.nan THEN 10 ELSE pl.val
            page == IF pp.nan THEN 1 ELSE pp.val
        IN  /\ last.sent.limit = limit
            /\ last.sent.offset = (page - 1) * limit
\* C6 as amended: limit and page fall back to 10 and 1 when the query value
\* is absent, parses to NaN or parses to zero; a negative value goes
\* through, so page=0 means page 1 (offset 0), limit=0 means limit 10, and
\* page=-1 gives offset -2*limit.
C6_DefaultsOnNaNAndZero ==
    (last.kind = "list" /\ Len(last.calls) = 2) =>
        LET pl == ParseInt(last.query.limit)
            pp == ParseInt(last.query.page)
            limit == IF pl.nan \/ pl.val = 0 THEN 10 ELSE pl.val
            page == IF pp.nan \/ pp.val = 0 THEN 1 ELSE pp.val
        IN  /\ last.sent.limit = limit
            /\ last.sent.offset = (page - 1) * limit
            /\ last.query.limit \in {QAbsent, QStr(<<"a">>), QStr(<<"0">>)}
                    => last.sent.limit = 10
            /\ last.query.limit = QStr(<<"-", "2">>) => last.sent.limit = 0 - 2
            /\ last.query.page \in {QAbsent, QStr(<<"a">>), QStr(<<"0">>)}
                    => last.sent.offset = 0
            /\ last.query.page = QStr(<<"-", "1">>)
                    => last.sent.offset = (0 - 2) * last.sent.limit
\* limit=0 and page=-1 were sent to the gateway as limit 10, offset -20
C6_Witness ==
    /\ last.kind = "list" /\ Len(last.calls) = 2
    /\ last.query.limit = QStr(<<"0">>) /\ last.query.page = QStr(<<"-", "1">>)
    /\ last.sent.limit = 10 /\ last.sent.offset = 0 - 20

\* C7: a create answered 201 returns an identity that no teacher created
\* before (deleted ones included) was ever given.
C7_CreatedIdentityIsFresh ==
    (last.kind = "create" /\ last.resp.status = 201) => last.fresh

\* C8: an update of a stored teacher answered 200 sets the fields the body
\* supplies and nothing else: the teacher's other fields, its identity and
\* every other teacher stay as they were; with an empty body the store is
\* unchanged and the response is the entity as it was looked up.
C8_UpdateChangesSuppliedFieldsOnly ==
    [][(/\ served' = served /\ last' # Idle
        /\ last'.kind = "update" /\ last'.resp.status = 200
        /\ last'.id \in DOMAIN store)
       => LET i == last'.id
              b == last'.body
          IN  /\ DOMAIN store' = DOMAIN store
              /\ \A j \in DOMAIN store \ {i} : store'[j] = store[j]
              /\ store'[i].name = (IF b.name = Undefined THEN store[i].name ELSE b.name)
              /\ store'[i].department =
                    (IF b.department = Undefined THEN store[i].department ELSE b.department)
              /\ last'.resp.entity.id = i
              /\ (b.name = Undefined /\ b.department = Undefined)
                    => (store' = store /\ last'.resp.entity = last'.teacher)]_vars
\* { department: 'Physics' } was applied to one of two stored teachers
C8_Witness ==
    /\ last.kind = "update" /\ last.resp.status = 200 /\ last.row = "stored"
    /\ last.body = [NoBody EXCEPT !.department = "Physics"]
    /\ Cardinality(DOMAIN store) = 2
    /\ store[last.id] = Row("Alice", "Physics")
    /\ last.resp.entity = Entity(last.id, Row("Alice", "Physics"))

\* C9: the data of a list response is ordered by identity, non-increasing
\* when sort is exactly "desc" and non-decreasing for any other value.
C9_DataOrderedById ==
    IsList200 =>
        \A i, j \in 1..Len(last.resp.data) :
            i < j => IF last.query.sort = "desc"
                     THEN last.resp.data[i].id >= last.resp.data[j].id
                     ELSE last.resp.data[i].id <= last.resp.data[j].id
\* sort=DESC listed three teachers in ascending order
C9_Witness ==
    /\ IsList200 /\ last.query.sort = "DESC"
    /\ Len(last.resp.data) = 3
    /\ last.resp.data[1].id < last.resp.data[2].id
    /\ last.resp.data[2].id < last.resp.data[3].id

\* C10 as stated: every list response is a snapshot, whatever runs beside
\* it: data holds at most max(0, min(limit, meta.total - (page-1)*limit))
\* records and is empty when meta.totalPages is 0.
C10_ListIsSnapshot ==
    IsList200 =>
        LET limit == last.sent.limit
            start == (last.resp.meta.page - 1) * limit
        IN  /\ Len(last.resp.data) <= Max(0, Min(limit, last.resp.meta.total - start))
            /\ ~(last.resp.data # << >> /\ last.resp.meta.totalPages = 0)
\* C10 as amended: for page >= 1 and limit >= 1, data is the page of the
\* store as it is when the page query runs: min(limit, n - (page-1)*limit)
\* records, n the number of teachers then, or none; when n equals
\* meta.total (no create or delete took effect since the count call) the
\* two bounds of the claim hold.
C10_ListAgreesWhenStoreStill ==
    (IsList200 /\ last.sent.limit >= 1 /\ last.resp.meta.page >= 1) =>
        LET limit == last.sent.limit
            start == (last.resp.meta.page - 1) * limit
        IN  /\ Len(last.resp.data) = Max(0, Min(limit, last.atFind - start))
            /\ last.atFind = last.resp.meta.total =>
                /\ Len(last.resp.data)
                        <= Max(0, Min(limit, last.resp.meta.total - start))
                /\ ~(last.resp.data # << >> /\ last.resp.meta.totalPages = 0)
\* a list that ran beside other requests over an unchanged, non-empty store
C10_Witness ==
    /\ IsList200 /\ last.sent.limit >= 1 /\ last.resp.meta.page >= 1
    /\ last.atFind = last.resp.meta.total
    /\ last.resp.data # << >>
    /\ \E c \in Slots : reqs[c] # Idle

====
